---- MODULE Spec2Model ----
(***************************************************************************)
(* Session lifecycle manager of wwebjs-api (src/src/sessions.js).          *)
(*                                                                         *)
(* The manager runs on a single-threaded event loop: an async function    *)
(* runs without interruption up to its next `await`, so every action      *)
(* below is one such run-to-suspension segment of one invocation (a       *)
(* "task"), or one event delivered by the browser.  The outcome of an     *)
(* awaited call of the messaging client (whatsapp-web.js / puppeteer) is  *)
(* chosen when the awaiting task resumes.                                  *)
(***************************************************************************)
EXTENDS Integers, Sequences, FiniteSets, TLC

VARIABLES
  sessions,         \* the Map `sessions`: identity -> client handle (NULL = no entry)
  dirs,             \* identities whose directory session-<id> exists under the root
  clients,          \* per client handle: browser/page status and page listeners
  nextClient,       \* number of Client objects constructed so far, plus one
  tasks,            \* the invocations of the exported functions and of restartSession
  recoverSessions,  \* config flag recoverSessions (fixed at start-up)
  disk              \* the directory tree: existing directories and symbolic links

vars == <<sessions, dirs, clients, nextClient, tasks, recoverSessions, disk>>

---------------------------------------------------------------------------
(* Bounds *)

Ids == {"a", "b"}

MaxTasks == 3

MaxClients == 3

MaxFlushes == 1

\* milliseconds per step of the clock
TickMs == 30000

(* Program constants *)

MaxEvalRetry == 2

MaxDelay == 10

QrWindow == 60000

NULL == 0

Handles == 1..MaxClients

---------------------------------------------------------------------------
(* Values *)

\* const returnData = { success: false, state: null, message: '' }
ReturnData ==
  [success |-> FALSE, state |-> "null", message |-> ""]

NoResult ==
  [success |-> FALSE, message |-> "", client |-> NULL]

\* the pairing-code fields of a client: qr, qrImage and qrClearTimeout are
\* the properties of that name; timers are the armed expiry timers with the
\* clock steps left to each; issued counts the 'qr' events received and age
\* the clock steps since the last of them
NoImage ==
  <<>>

NoQr ==
  [qr |-> NULL, qrImage |-> NoImage, qrClearTimeout |-> NULL, timers |-> {},
   issued |-> 0, age |-> 0, authed |-> FALSE, authPend |-> FALSE]

NewClient(id) ==
  [st |-> "init", lis |-> {}, pend |-> FALSE, id |-> id, pair |-> NoQr]

UnusedClient ==
  [st |-> "unused", lis |-> {}, pend |-> FALSE, id |-> "", pair |-> NoQr]

NewTask(op, id) ==
  [op |-> op, id |-> id, pc |-> "start", out |-> "running",
   client |-> NULL, nclient |-> NULL, flag |-> FALSE,
   files |-> <<>>, listed |-> {}, val |-> ReturnData,
   retry |-> 0, delay |-> 0, sres |-> NoResult,
   probe |-> "none", lastCall |-> "none", path |-> <<>>, payload |-> 0,
   sent |-> {}]

\* the invocation settles: its locals are dead, its result stays
Finish(tk, out) ==
  [tk EXCEPT !.pc = "done", !.out = out, !.nclient = NULL, !.retry = 0, !.delay = 0,
             !.client = IF tk.op = "restart" THEN @ ELSE NULL]

\* the orders in which readdir may list the directories of S
Listings(S) ==
  {s \in [1..Cardinality(S) -> S] : \A i, j \in 1..Cardinality(S) : s[i] = s[j] => i = j}

\* page states in which pupPage.isClosed() is false
PageOpen(c) ==
  c.st \in {"live", "crashed"}

\* client.pupBrowser.isConnected()
BrowserConnected(c) ==
  c.st \in {"live", "crashed", "pageclosed"}

\* a directory tree: the directories that exist (paths as lists of
\* segments below "/") and the symbolic links <<link, target>>
PlainDisk ==
  [nodes |-> {<<>>, <<"sessions">>, <<"etc">>}, links |-> {}]

\* the trees deleteSessionFolder may find
Disks ==
  {[nodes |-> PlainDisk.nodes \cup ds, links |-> ls] :
     ds \in SUBSET {<<"sessions", "session-a">>, <<"sessions", "x">>},
     ls \in SUBSET {<<<<"sessions", "session-ln">>, <<"etc">>>>,
                    <<<<"sessions", "session-in">>, <<"sessions", "session-a">>>>}}

---------------------------------------------------------------------------
(* setupSession *)

\* the existence check never finding the entry
SessionsHasNever(sess, id) ==
  FALSE

\* sessions.has(sessionId)
SessionsHas(sess, id) ==
  sess[id] # NULL

\* { success: false, message: `Session already exists for: ...`, client: sessions.get(sessionId) }
AlreadyExists(sess, id) ==
  [success |-> FALSE, message |-> "already_exists", client |-> sess[id]]

\* a failed setupSession ending the loop of its caller
SetupReturnStops(tk, res) ==
  IF tk.op = "restore" /\ res.success
  THEN [tk EXCEPT !.pc = "rs_loop", !.sres = res]
  ELSE Finish([tk EXCEPT !.sres = res], "returned")

\* where control goes when setupSession resolves with res
SetupReturn(tk, res) ==
  IF tk.op = "restore"
  THEN [tk EXCEPT !.pc = "rs_loop", !.sres = res]
  ELSE Finish([tk EXCEPT !.sres = res], "returned")

\* setupSession(id) up to `await client.initialize()`; sess and cls are the
\* Registry and the clients as the caller left them
SetupCall(tks, t, id, sess, cls) ==
  IF SessionsHas(sess, id)
  THEN /\ tasks' = [tks EXCEPT ![t] = SetupReturn(tks[t], AlreadyExists(sess, id))]
       /\ sessions' = sess
       /\ clients' = cls
       /\ UNCHANGED <<dirs, nextClient>>
  ELSE /\ nextClient <= MaxClients
       /\ tasks' = [tks EXCEPT ![t] = [@ EXCEPT !.pc = "s_init", !.id = id, !.nclient = nextClient]]
       /\ sessions' = sess
       /\ clients' = [cls EXCEPT ![nextClient] = NewClient(id)]
       /\ nextClient' = nextClient + 1
       /\ dirs' = dirs \cup {id}

CallSetupSession(id) ==
  /\ Len(tasks) < MaxTasks
  /\ SetupCall(Append(tasks, NewTask("setup", id)), Len(tasks) + 1, id, sessions, clients)
  /\ UNCHANGED <<recoverSessions, disk>>

\* the entry written whatever initialize() answered
SessionsSetAlways(sess, id, h, ok) ==
  [sess EXCEPT ![id] = h]

\* sessions.set(sessionId, client), reached only when initialize() did not throw
SessionsSet(sess, id, h, ok) ==
  IF ok THEN [sess EXCEPT ![id] = h] ELSE sess

\* `await client.initialize()` settles; on success initWebSocketServer,
\* initializeEvents and sessions.set run in the same segment
InitializeDone(t) ==
  /\ tasks[t].pc = "s_init"
  /\ LET tk == tasks[t]
         h  == tk.nclient
     IN \E ok \in BOOLEAN :
          IF ok
          THEN /\ clients' = [clients EXCEPT ![h].st = "live", ![h].pend = recoverSessions,
                                              ![h].pair.authPend = TRUE]
               /\ sessions' = SessionsSet(sessions, tk.id, h, ok)
               /\ tasks' = [tasks EXCEPT ![t] =
                     SetupReturn(tk, [success |-> TRUE, message |-> "initiated", client |-> h])]
          ELSE /\ clients' = [clients EXCEPT ![h].st = "failed"]
               /\ sessions' = SessionsSet(sessions, tk.id, h, ok)
               /\ tasks' = [tasks EXCEPT ![t] =
                     SetupReturn(tk, [success |-> FALSE, message |-> "error", client |-> NULL])]
  /\ UNCHANGED <<dirs, nextClient, recoverSessions, disk>>

---------------------------------------------------------------------------
(* initializeEvents: crash recovery *)

\* waitForNestedObject(client, 'pupPage').then(...): the two `once`
\* listeners are registered in a later turn than initializeEvents itself
AttachRecovery(h) ==
  /\ clients[h].pend
  /\ clients' = [clients EXCEPT ![h].pend = FALSE, ![h].lis = {"close", "error"}]
  /\ UNCHANGED <<sessions, dirs, nextClient, tasks, recoverSessions, disk>>

\* waitForNestedObject(client, 'pupPage') ends its wait as soon as the page
\* object exists, and it exists once initialize() has resolved: the
\* continuation that attaches the listeners runs before any later turn
ListenersAttached ==
  \A h \in Handles : ~clients[h].pend

\* restartSession(sessionId) up to `await client.destroy()`
RestartTask(h) ==
  [NewTask("restart", clients[h].id) EXCEPT !.pc = "x_destroy", !.client = h]

\* the page emits sig; a registered `once` listener removes itself and
\* calls restartSession, which deletes the Registry entry before its first await
PageSignal(h, sig, st) ==
  /\ clients[h].st \in (IF sig = "close" THEN {"live", "crashed"} ELSE {"live"})
  /\ IF sig \in clients[h].lis
     THEN /\ Len(tasks) < MaxTasks
          /\ clients' = [clients EXCEPT ![h].st = st, ![h].lis = @ \ {sig}]
          /\ sessions' = [sessions EXCEPT ![clients[h].id] = NULL]
          /\ tasks' = Append(tasks, RestartTask(h))
     ELSE /\ clients' = [clients EXCEPT ![h].st = st]
          /\ UNCHANGED <<sessions, tasks>>
  /\ UNCHANGED <<dirs, nextClient, recoverSessions, disk>>

PageClose(h) ==
  PageSignal(h, "close", "pageclosed")

PageError(h) ==
  PageSignal(h, "error", "crashed")

\* a rejection of destroy() ending restartSession
RestartDestroyThrows(t) ==
  /\ tasks[t].pc = "x_destroy"
  /\ \E ok \in BOOLEAN :
       IF ok
       THEN SetupCall(tasks, t, tasks[t].id, sessions,
                      [clients EXCEPT ![tasks[t].client].st = "gone"])
       ELSE /\ tasks' = [tasks EXCEPT ![t] = Finish(@, "thrown")]
            /\ UNCHANGED <<sessions, dirs, clients, nextClient>>
  /\ UNCHANGED <<recoverSessions, disk>>

\* `await client.destroy().catch(...)` settles, then setupSession(sessionId)
RestartDestroyDone(t) ==
  /\ tasks[t].pc = "x_destroy"
  /\ \E ok \in BOOLEAN :
       LET h   == tasks[t].client
           cls == IF ok THEN [clients EXCEPT ![h].st = "gone"] ELSE clients
       IN SetupCall(tasks, t, tasks[t].id, sessions, cls)
  /\ UNCHANGED <<recoverSessions, disk>>

---------------------------------------------------------------------------
(* initializeEvents: pairing codes *)

\* the expiry window in clock steps
QrTicks ==
  QrWindow \div TickMs

\* QRCode.toBuffer(qrData, { type: 'png' })
ToBuffer(qrData) ==
  <<"png", qrData>>

\* checkIfEventisEnabled('authenticated').then(...): the statement
\* `client.qr = null` runs once, when the listener is registered
RegisterAuthenticated(h) ==
  /\ clients[h].pair.authPend
  /\ clients' = [clients EXCEPT ![h].pair.authPend = FALSE, ![h].pair.qr = NULL]
  /\ UNCHANGED <<sessions, dirs, nextClient, tasks, recoverSessions, disk>>

\* the client emits 'authenticated': the listener, if registered, only
\* triggers the webhook and the websocket
Authenticated(h) ==
  /\ clients[h].st = "live"
  /\ ~clients[h].pair.authed
  /\ clients' = [clients EXCEPT ![h].pair.authed = TRUE]
  /\ UNCHANGED <<sessions, dirs, nextClient, tasks, recoverSessions, disk>>

\* the client emits 'qr': the listener runs up to `await QRCode.toBuffer(qrData)`
QrEvent(h) ==
  /\ clients[h].st = "live"
  /\ ~clients[h].pair.authed
  /\ Len(tasks) < MaxTasks
  /\ clients' = [clients EXCEPT ![h].pair.issued = @ + 1, ![h].pair.age = 0]
  /\ tasks' = Append(tasks, [NewTask("qr", clients[h].id) EXCEPT
                               !.pc = "q_render", !.client = h,
                               !.payload = clients[h].pair.issued + 1])
  /\ UNCHANGED <<sessions, dirs, nextClient, recoverSessions, disk>>

\* no timer is cancelled before the new one is armed
ArmTimerStacking(pair, qrData) ==
  [pair EXCEPT !.timers = @ \cup {[id |-> qrData, left |-> QrTicks]},
               !.qrClearTimeout = qrData]

\* if (client.qrClearTimeout) clearTimeout(client.qrClearTimeout);
\* client.qrClearTimeout = setTimeout(..., 60000)
ArmTimer(pair, qrData) ==
  [pair EXCEPT !.timers = {tm \in @ : tm.id # pair.qrClearTimeout}
                            \cup {[id |-> qrData, left |-> QrTicks]},
               !.qrClearTimeout = qrData]

\* toBuffer settles: the fields are cached and the timer is re-armed, then
\* `await checkIfEventisEnabled('qr')`; a rejection is logged
QrRendered(t) ==
  /\ tasks[t].pc = "q_render"
  /\ LET h == tasks[t].client
         n == tasks[t].payload
     IN \E ok \in BOOLEAN :
          IF ok
          THEN /\ clients' = [clients EXCEPT ![h].pair =
                     ArmTimer([@ EXCEPT !.qrImage = ToBuffer(n), !.qr = n], n)]
               /\ tasks' = [tasks EXCEPT ![t].pc = "q_gate"]
          ELSE /\ clients' = clients
               /\ tasks' = [tasks EXCEPT ![t] = Finish(@, "returned")]
  /\ UNCHANGED <<sessions, dirs, nextClient, recoverSessions, disk>>

\* checkIfEventisEnabled('qr') settles; webhook and websocket are triggered
QrGateDone(t) ==
  /\ tasks[t].pc = "q_gate"
  /\ tasks' = [tasks EXCEPT ![t] = Finish(@, "returned")]
  /\ UNCHANGED <<sessions, dirs, clients, nextClient, recoverSessions, disk>>

\* an armed timer is due: client.qr = null; client.qrImage = null
QrExpire(h) ==
  /\ \E tm \in clients[h].pair.timers :
       /\ tm.left = 0
       /\ clients' = [clients EXCEPT ![h].pair.qr = NULL, ![h].pair.qrImage = NoImage,
                                     ![h].pair.timers = @ \ {tm}]
  /\ UNCHANGED <<sessions, dirs, nextClient, tasks, recoverSessions, disk>>

\* one clock step passes; a due timer fires before the clock moves on
Tick ==
  /\ \A h \in Handles : \A tm \in clients[h].pair.timers : tm.left > 0
  /\ \E h \in Handles :
       \/ clients[h].pair.timers # {}
       \/ clients[h].pair.issued > 0 /\ clients[h].pair.age <= QrTicks
  /\ clients' = [h \in Handles |->
       [clients[h] EXCEPT
          !.pair.timers = {[tm EXCEPT !.left = @ - 1] : tm \in @},
          !.pair.age = IF clients[h].pair.issued > 0 /\ @ <= QrTicks THEN @ + 1 ELSE @]]
  /\ UNCHANGED <<sessions, dirs, nextClient, tasks, recoverSessions, disk>>

---------------------------------------------------------------------------
(* initializeEvents: message events and media *)

\* the message events
MessageEvents ==
  {"message", "message_ack", "message_create"}

\* triggerWebhook(sessionWebhook, sessionId, category, ...) and
\* triggerWebSocket(sessionId, category, ...)
Trigger(category) ==
  {<<category, "webhook">>, <<category, "websocket">>}

\* the events whose listener goes on to download the media
DownloadsMedia(event) ==
  event = "message"

\* the client emits a message event; media says that message.hasMedia holds
\* and message._data.size is below maxAttachmentSize.  The listener triggers
\* both channels, then (lines 325-334) asks whether 'media' is enabled;
\* sendMessageSeenStatus is fire-and-forget
MessageEvent(h, event, media) ==
  /\ clients[h].st = "live"
  /\ Len(tasks) < MaxTasks
  /\ LET tk == [NewTask(event, clients[h].id) EXCEPT
                  !.client = h, !.flag = media, !.sent = Trigger(event)]
     IN tasks' = Append(tasks,
          IF DownloadsMedia(event) /\ media
          THEN [tk EXCEPT !.pc = "m_gate"]
          ELSE [Finish(tk, "returned") EXCEPT !.flag = media])
  /\ UNCHANGED <<sessions, dirs, clients, nextClient, recoverSessions, disk>>

\* checkIfEventisEnabled('media') resolves: message.downloadMedia() is called
MediaGateDone(t) ==
  /\ tasks[t].pc = "m_gate"
  /\ tasks' = [tasks EXCEPT ![t].pc = "m_download"]
  /\ UNCHANGED <<sessions, dirs, clients, nextClient, recoverSessions, disk>>

\* downloadMedia() settles: 'media' goes to both channels, or the error is logged
MediaDownloadDone(t) ==
  /\ tasks[t].pc = "m_download"
  /\ \E ok \in BOOLEAN :
       tasks' = [tasks EXCEPT ![t] =
         [Finish(IF ok THEN [@ EXCEPT !.sent = @ \cup Trigger("media")] ELSE @, "returned")
            EXCEPT !.probe = IF ok THEN "ok" ELSE "throw"]]
  /\ UNCHANGED <<sessions, dirs, clients, nextClient, recoverSessions, disk>>

---------------------------------------------------------------------------
(* validateSession *)

\* !sessions.has(sessionId) || !sessions.get(sessionId)
SessionNotFound(sess, id) ==
  ~SessionsHas(sess, id)

\* returnData returned without its message set
NotFoundResultNoMessage ==
  ReturnData

\* lines 34-35: returnData.message = 'session_not_found'; return returnData
NotFoundResult ==
  [ReturnData EXCEPT !.message = "session_not_found"]

\* where control goes when validateSession resolves with v
ValidateReturn(tk, v) ==
  IF tk.op = "flush"
  THEN [tk EXCEPT !.pc = "fl_val", !.val = v]
  ELSE Finish([tk EXCEPT !.val = v], "returned")

\* an outer catch that rethrows, as the catch blocks of the other operations do
ValidateRethrow(tk) ==
  Finish(tk, "thrown")

\* the outer catch of validateSession: return { success: false, state: null, message: error.message }
ValidateCatch(tk) ==
  ValidateReturn(tk, [ReturnData EXCEPT !.message = "error"])

\* validateSession(id) up to `await waitForNestedObject(client, 'pupPage')`
ValidateCall(tks, t, id) ==
  /\ tasks' = [tks EXCEPT ![t] =
       IF SessionNotFound(sessions, id)
       THEN ValidateReturn([@ EXCEPT !.id = id, !.client = NULL, !.probe = "none", !.lastCall = "none"],
                           NotFoundResult)
       ELSE [@ EXCEPT !.pc = "v_wait", !.id = id, !.client = sessions[id],
                      !.retry = 0, !.probe = "none", !.lastCall = "none", !.val = ReturnData]]
  /\ UNCHANGED <<sessions, dirs, clients, nextClient>>

CallValidateSession(id) ==
  /\ Len(tasks) < MaxTasks
  /\ ValidateCall(Append(tasks, NewTask("validate", id)), Len(tasks) + 1, id)
  /\ UNCHANGED <<recoverSessions, disk>>

\* one pass through the top of the while(true) loop: the isClosed test, then
\* the call of pupPage.evaluate raced against the 1000 ms timer
ProbePage(tk) ==
  IF ~PageOpen(clients[tk.client])
  THEN ValidateReturn(tk, [ReturnData EXCEPT !.message = "browser tab closed"])
  ELSE [tk EXCEPT !.pc = "v_eval"]

\* the wait for pupPage settles; its result (resolved or rejected) is discarded
ValidateWaitDone(t) ==
  /\ tasks[t].pc = "v_wait"
  /\ tasks' = [tasks EXCEPT ![t] = ProbePage(@)]
  /\ UNCHANGED <<sessions, dirs, clients, nextClient, recoverSessions, disk>>

\* how the race of evaluate against the timer can settle for a page in state st
EvalOutcomes(st) ==
  CASE st = "live" -> {"ok", "timeout", "throw"}
    [] st = "crashed" -> {"timeout", "throw"}
    [] OTHER -> {"throw"}

\* what the race yields to the loop: "break" leaves the loop, "catch" enters the catch block
RaceResult(o) ==
  IF o = "throw" THEN "catch" ELSE "break"

\* the catch block of the loop: give up when maxRetry === 2, else maxRetry++ and loop
EvalCatch(tk) ==
  IF tk.retry = MaxEvalRetry
  THEN ValidateReturn(tk, [ReturnData EXCEPT !.message = "session closed"])
  ELSE ProbePage([tk EXCEPT !.retry = @ + 1])

ValidateEvalDone(t) ==
  /\ tasks[t].pc = "v_eval"
  /\ \E o \in EvalOutcomes(clients[tasks[t].client].st) :
       LET tk == [tasks[t] EXCEPT !.probe = o, !.lastCall = IF o = "throw" THEN "fail" ELSE o]
       IN tasks' = [tasks EXCEPT ![t] =
            IF RaceResult(o) = "break" THEN [tk EXCEPT !.pc = "v_state"] ELSE EvalCatch(tk)]
  /\ UNCHANGED <<sessions, dirs, clients, nextClient, recoverSessions, disk>>

\* what client.getState() can yield for a client in state st
StateOutcomes(st) ==
  IF st = "live" THEN {"CONNECTED", "OPENING", "throw"} ELSE {"throw"}

\* lines 67-77: the result built from the reported state
StateResult(s) ==
  IF s # "CONNECTED"
  THEN [ReturnData EXCEPT !.state = s, !.message = "session_not_connected"]
  ELSE [success |-> TRUE, state |-> s, message |-> "session_connected"]

ValidateStateDone(t) ==
  /\ tasks[t].pc = "v_state"
  /\ \E s \in StateOutcomes(clients[tasks[t].client].st) :
       tasks' = [tasks EXCEPT ![t] =
         IF s = "throw"
         THEN ValidateCatch([@ EXCEPT !.lastCall = "fail"])
         ELSE ValidateReturn([@ EXCEPT !.lastCall = "ok"], StateResult(s))]
  /\ UNCHANGED <<sessions, dirs, clients, nextClient, recoverSessions, disk>>

---------------------------------------------------------------------------
(* deleteSession and deleteSessionFolder *)

\* the validation results a caller can pass to deleteSession
ValidationInputs ==
  { StateResult("CONNECTED"), StateResult("OPENING"),
    [ReturnData EXCEPT !.message = "session closed"] }

\* where control goes when deleteSession resolves
DeleteReturn(tk) ==
  IF tk.op = "flush"
  THEN [tk EXCEPT !.pc = "fl_del"]
  ELSE Finish(tk, "returned")

\* deleteSession's catch rethrows; inside flushSessions the rejection lands
\* in flushSessions' own catch, which rethrows as well
DeleteThrow(tk) ==
  Finish(tk, "thrown")

\* the listeners left in place
KeepListeners(cls, h) ==
  cls

\* client.pupPage?.removeAllListeners('close') / ('error')
RemoveAllListeners(cls, h) ==
  [cls EXCEPT ![h].lis = {}]

\* deleteSession(id, v) up to `await terminateWebSocketServer(sessionId)`
DeleteCall(tks, t, id, v) ==
  /\ IF sessions[id] = NULL
     THEN /\ tasks' = [tks EXCEPT ![t] = DeleteReturn([@ EXCEPT !.id = id, !.val = v, !.client = NULL])]
          /\ clients' = clients
     ELSE /\ tasks' = [tks EXCEPT ![t] =
                [@ EXCEPT !.pc = "d_ws", !.id = id, !.val = v, !.client = sessions[id], !.delay = 0]]
          /\ clients' = RemoveAllListeners(clients, sessions[id])
  /\ UNCHANGED <<sessions, dirs, nextClient>>

CallDeleteSession(id, v) ==
  /\ Len(tasks) < MaxTasks
  /\ DeleteCall(Append(tasks, NewTask("delete", id)), Len(tasks) + 1, id, v)
  /\ UNCHANGED <<recoverSessions, disk>>

\* which teardown lines 550-556 choose: logout, destroy or neither
TeardownChoice(v) ==
  IF v.success THEN "d_logout"
  ELSE IF v.message = "session_not_connected" THEN "d_destroy"
  ELSE "none"

\* the while loop of lines 559-562 and, once it is left, sessions.delete
\* and the call of deleteSessionFolder up to its first realpath
DisconnectWait(t, tk, cls) ==
  IF BrowserConnected(cls[tk.client]) /\ tk.delay < MaxDelay
  THEN /\ tasks' = [tasks EXCEPT ![t] = [tk EXCEPT !.pc = "d_wait"]]
       /\ sessions' = sessions
  ELSE /\ tasks' = [tasks EXCEPT ![t] = [tk EXCEPT !.pc = "f_real1"]]
       /\ sessions' = [sessions EXCEPT ![tk.id] = NULL]

\* terminateWebSocketServer settles (a rejection is caught and logged)
DeleteWsDone(t) ==
  /\ tasks[t].pc = "d_ws"
  /\ IF TeardownChoice(tasks[t].val) = "none"
     THEN DisconnectWait(t, tasks[t], clients)
     ELSE /\ tasks' = [tasks EXCEPT ![t].pc = TeardownChoice(tasks[t].val)]
          /\ sessions' = sessions
  /\ UNCHANGED <<dirs, clients, nextClient, recoverSessions, disk>>

\* `await client.logout()` or `await client.destroy()` settles
DeleteTeardownDone(t) ==
  /\ tasks[t].pc \in {"d_logout", "d_destroy"}
  /\ \E ok \in BOOLEAN :
       IF ok
       THEN /\ clients' = [clients EXCEPT ![tasks[t].client].st = "gone"]
            /\ DisconnectWait(t, tasks[t], clients')
       ELSE /\ tasks' = [tasks EXCEPT ![t] = DeleteThrow(@)]
            /\ UNCHANGED <<sessions, clients>>
  /\ UNCHANGED <<dirs, nextClient, recoverSessions, disk>>

\* one 1000 ms wait of the disconnect loop elapses
DeleteTick(t) ==
  /\ tasks[t].pc = "d_wait"
  /\ DisconnectWait(t, [tasks[t] EXCEPT !.delay = @ + 1], clients)
  /\ UNCHANGED <<dirs, clients, nextClient, recoverSessions, disk>>

\* fs.promises.realpath(targetDirPath) settles: ENOENT when the directory is gone
FolderRealpathTarget(t) ==
  /\ tasks[t].pc = "f_real1"
  /\ tasks' = [tasks EXCEPT ![t] =
       IF tasks[t].id \in dirs THEN [@ EXCEPT !.pc = "f_real2"] ELSE DeleteThrow(@)]
  /\ UNCHANGED <<sessions, dirs, clients, nextClient, recoverSessions, disk>>

\* fs.promises.realpath(sessionFolderPath) settles; the prefix test passes
\* for the identities of Ids; fs.promises.rm is called
FolderRealpathRoot(t) ==
  /\ tasks[t].pc = "f_real2"
  /\ tasks' = [tasks EXCEPT ![t].pc = "f_rm"]
  /\ UNCHANGED <<sessions, dirs, clients, nextClient, recoverSessions, disk>>

\* fs.promises.rm(resolvedTargetDirPath, { recursive: true, force: true }) settles
FolderRm(t) ==
  /\ tasks[t].pc = "f_rm"
  /\ dirs' = dirs \ {tasks[t].id}
  /\ tasks' = [tasks EXCEPT ![t] = DeleteReturn(@)]
  /\ UNCHANGED <<sessions, clients, nextClient, recoverSessions, disk>>

---------------------------------------------------------------------------
(* deleteSessionFolder on paths: identities are arbitrary strings *)

\* sessionFolderPath, as the list of its segments below "/"
SessionFolderPath ==
  <<"sessions">>

\* identities as a caller may pass them, "/" and ".." included
PathIds ==
  {"a", "b", "ln", "in", "../x", "x/..", "../../../etc"}

\* the segments of `session-${sessionId}` split at "/"
SessionDirSegments(id) ==
  CASE id = "a" -> <<"session-a">>
    [] id = "b" -> <<"session-b">>
    [] id = "ln" -> <<"session-ln">>
    [] id = "in" -> <<"session-in">>
    [] id = "../x" -> <<"session-..", "x">>
    [] id = "x/.." -> <<"session-x", "..">>
    [] id = "../../../etc" -> <<"session-..", "..", "..", "etc">>

RECURSIVE Normalize(_, _)
\* path.join: ".." drops the segment before it, lexically; "/.." is "/"
Normalize(done, rest) ==
  IF rest = <<>> THEN done
  ELSE IF Head(rest) = ".."
       THEN Normalize(IF done = <<>> THEN <<>> ELSE SubSeq(done, 1, Len(done) - 1), Tail(rest))
       ELSE Normalize(Append(done, Head(rest)), Tail(rest))

\* path.join(sessionFolderPath, `session-${sessionId}`)
TargetDirPath(id) ==
  Normalize(SessionFolderPath, SessionDirSegments(id))

IsPrefix(r, p) ==
  /\ Len(r) <= Len(p)
  /\ SubSeq(p, 1, Len(r)) = r

\* fs.promises.realpath(p): symbolic links replaced by what they point to;
\* <<"ENOENT">> when nothing exists at the resolved place
RealPath(d, p) ==
  LET hit == {l \in d.links : IsPrefix(l[1], p)}
      res == IF hit = {} THEN p
             ELSE LET l == CHOOSE l \in hit : TRUE
                  IN l[2] \o SubSeq(p, Len(l[1]) + 1, Len(p))
  IN IF res \in d.nodes THEN res ELSE <<"ENOENT">>

\* the test accepting the session folder itself
StartsWithRoot(target, root) ==
  IsPrefix(root, target)

\* resolvedTargetDirPath.startsWith(resolvedSessionPath + path.sep)
StartsWithSafePath(target, root) ==
  /\ Len(target) > Len(root)
  /\ IsPrefix(root, target)

\* fs.promises.rm(p, { recursive: true, force: true })
Rm(d, p) ==
  [nodes |-> {n \in d.nodes : ~IsPrefix(p, n)},
   links |-> {l \in d.links : ~IsPrefix(p, l[1])}]

\* deleteSessionFolder(id) up to `await fs.promises.realpath(targetDirPath)`
CallDeleteSessionFolder(id) ==
  /\ Len(tasks) < MaxTasks
  /\ tasks' = Append(tasks, [NewTask("folder", id) EXCEPT !.pc = "p_real1"])
  /\ UNCHANGED <<sessions, dirs, clients, nextClient, recoverSessions, disk>>

\* realpath(targetDirPath) settles; then `await fs.promises.realpath(sessionFolderPath)`
PathRealpathTarget(t) ==
  /\ tasks[t].pc = "p_real1"
  /\ LET r == RealPath(disk, TargetDirPath(tasks[t].id))
     IN tasks' = [tasks EXCEPT ![t] =
          IF r = <<"ENOENT">> THEN Finish(@, "thrown")
          ELSE [@ EXCEPT !.pc = "p_real2", !.path = r]]
  /\ UNCHANGED <<sessions, dirs, clients, nextClient, recoverSessions, disk>>

\* realpath(sessionFolderPath) settles; the traversal test; then `await fs.promises.rm(...)`
PathRealpathRoot(t) ==
  /\ tasks[t].pc = "p_real2"
  /\ LET root == RealPath(disk, SessionFolderPath)
     IN tasks' = [tasks EXCEPT ![t] =
          IF root = <<"ENOENT">> \/ ~StartsWithSafePath(@.path, root)
          THEN Finish(@, "thrown")
          ELSE [@ EXCEPT !.pc = "p_rm"]]
  /\ UNCHANGED <<sessions, dirs, clients, nextClient, recoverSessions, disk>>

\* rm(resolvedTargetDirPath) settles
PathRm(t) ==
  /\ tasks[t].pc = "p_rm"
  /\ disk' = Rm(disk, tasks[t].path)
  /\ tasks' = [tasks EXCEPT ![t] = Finish(@, "returned")]
  /\ UNCHANGED <<sessions, dirs, clients, nextClient, recoverSessions>>

---------------------------------------------------------------------------
(* reloadSession *)

\* reloadSession(id) up to `await client.pupBrowser.pages()`
CallReloadSession(id) ==
  /\ Len(tasks) < MaxTasks
  /\ LET tk == NewTask("reload", id)
     IN IF sessions[id] = NULL
        THEN /\ tasks' = Append(tasks, Finish(tk, "returned"))
             /\ clients' = clients
        ELSE /\ tasks' = Append(tasks, [tk EXCEPT !.pc = "r_pages", !.client = sessions[id]])
             /\ clients' = RemoveAllListeners(clients, sessions[id])
  /\ UNCHANGED <<sessions, dirs, nextClient, recoverSessions, disk>>

\* the tail of reloadSession: sessions.delete(sessionId), then setupSession(sessionId)
ReloadTail(t, cls) ==
  SetupCall(tasks, t, tasks[t].id, [sessions EXCEPT ![tasks[t].id] = NULL], cls)

\* the catch block of lines 519-524: childProcess.kill(9)
KillBrowser(cls, h) ==
  [cls EXCEPT ![h].st = "gone"]

\* pupBrowser.pages() settles; on success every page.close() is called
ReloadPagesDone(t) ==
  /\ tasks[t].pc = "r_pages"
  /\ \E ok \in BOOLEAN :
       IF ok
       THEN /\ tasks' = [tasks EXCEPT ![t].pc = "r_pclose"]
            /\ UNCHANGED <<sessions, dirs, clients, nextClient>>
       ELSE ReloadTail(t, KillBrowser(clients, tasks[t].client))
  /\ UNCHANGED <<recoverSessions, disk>>

\* Promise.all(pages.map(page => page.close())) settles: it resolves once the
\* page has closed; then pupBrowser.close() is raced against the 5000 ms timer
ReloadPageCloseDone(t) ==
  /\ tasks[t].pc = "r_pclose"
  /\ \E ok \in BOOLEAN :
       IF ok
       THEN /\ ~PageOpen(clients[tasks[t].client])
            /\ tasks' = [tasks EXCEPT ![t].pc = "r_bclose"]
            /\ UNCHANGED <<sessions, dirs, clients, nextClient>>
       ELSE ReloadTail(t, KillBrowser(clients, tasks[t].client))
  /\ UNCHANGED <<recoverSessions, disk>>

\* the race settles: the browser closed ("ok"), the timer won while close
\* hangs ("timeout", the browser stays as it is), or close rejected ("throw")
ReloadBrowserCloseDone(t) ==
  /\ tasks[t].pc = "r_bclose"
  /\ \E o \in {"ok", "timeout", "throw"} :
       ReloadTail(t, IF o = "timeout" THEN clients ELSE KillBrowser(clients, tasks[t].client))
  /\ UNCHANGED <<recoverSessions, disk>>

\* what the caller of reloadSession gets from a settled invocation: the
\* rejection rethrown by the outer catch, or undefined (`await
\* setupSession(sessionId)` is a statement, its result is dropped and the
\* function has no return value)
ReloadResult(tk) ==
  IF tk.out = "thrown" THEN "error" ELSE "undefined"

---------------------------------------------------------------------------
(* restoreSessions *)

\* restoreSessions() up to the callback of fs.readdir
CallRestoreSessions ==
  /\ Len(tasks) < MaxTasks
  /\ tasks' = Append(tasks, [NewTask("restore", "") EXCEPT !.pc = "rs_readdir"])
  /\ UNCHANGED <<sessions, dirs, clients, nextClient, recoverSessions, disk>>

\* the for loop of lines 96-104 from its head to the next await
RestoreNext(t, tk) ==
  IF tk.files = <<>>
  THEN /\ tasks' = [tasks EXCEPT ![t] = Finish(tk, "returned")]
       /\ UNCHANGED <<sessions, dirs, clients, nextClient>>
  ELSE SetupCall([tasks EXCEPT ![t] = [tk EXCEPT !.files = Tail(@)]], t, Head(tk.files),
                 sessions, clients)

RestoreReaddirDone(t) ==
  /\ tasks[t].pc = "rs_readdir"
  /\ \E fs \in Listings(dirs) :
       RestoreNext(t, [tasks[t] EXCEPT !.files = fs, !.listed = dirs])
  /\ UNCHANGED <<recoverSessions, disk>>

\* `await setupSession(sessionId)` resumes the loop
RestoreLoop(t) ==
  /\ tasks[t].pc = "rs_loop"
  /\ RestoreNext(t, tasks[t])
  /\ UNCHANGED <<recoverSessions, disk>>

---------------------------------------------------------------------------
(* flushSessions *)

\* flushSessions(deleteOnlyInactive) up to `await fs.promises.readdir(...)`
CallFlushSessions(flag) ==
  /\ Len(tasks) < MaxTasks
  /\ Cardinality({t \in DOMAIN tasks : tasks[t].op = "flush"}) < MaxFlushes
  /\ tasks' = Append(tasks, [NewTask("flush", "") EXCEPT !.pc = "fl_readdir", !.flag = flag])
  /\ UNCHANGED <<sessions, dirs, clients, nextClient, recoverSessions, disk>>

\* the for loop of lines 578-587 from its head to the next await
FlushNext(t, tk) ==
  IF tk.files = <<>>
  THEN /\ tasks' = [tasks EXCEPT ![t] = Finish(tk, "returned")]
       /\ UNCHANGED <<sessions, dirs, clients, nextClient>>
  ELSE ValidateCall([tasks EXCEPT ![t] = [tk EXCEPT !.files = Tail(@)]], t, Head(tk.files))

FlushReaddirDone(t) ==
  /\ tasks[t].pc = "fl_readdir"
  /\ \E fs \in Listings(dirs) :
       FlushNext(t, [tasks[t] EXCEPT !.files = fs, !.listed = dirs])
  /\ UNCHANGED <<recoverSessions, disk>>

\* line 583: whether the validated identity is handed to deleteSession
FlushDeletes(flag, v) ==
  ~flag \/ ~v.success

\* `await validateSession(sessionId)` resumes
FlushValidated(t) ==
  /\ tasks[t].pc = "fl_val"
  /\ IF FlushDeletes(tasks[t].flag, tasks[t].val)
     THEN DeleteCall(tasks, t, tasks[t].id, tasks[t].val)
     ELSE FlushNext(t, tasks[t])
  /\ UNCHANGED <<recoverSessions, disk>>

\* `await deleteSession(sessionId, validation)` resumes
FlushDeleted(t) ==
  /\ tasks[t].pc = "fl_del"
  /\ FlushNext(t, tasks[t])
  /\ UNCHANGED <<recoverSessions, disk>>

---------------------------------------------------------------------------

Init ==
  /\ sessions = [i \in Ids |-> NULL]
  /\ dirs \in SUBSET Ids
  /\ clients = [h \in Handles |-> UnusedClient]
  /\ nextClient = 1
  /\ tasks = <<>>
  /\ recoverSessions \in BOOLEAN
  /\ disk = PlainDisk

Next ==
  \/ \E id \in Ids : CallSetupSession(id)
  \/ \E t \in DOMAIN tasks : InitializeDone(t)
  \/ \E h \in Handles : AttachRecovery(h)
  \/ \E h \in Handles : PageClose(h)
  \/ \E h \in Handles : PageError(h)
  \/ \E t \in DOMAIN tasks : RestartDestroyDone(t)
  \/ \E id \in Ids : CallValidateSession(id)
  \/ \E t \in DOMAIN tasks : ValidateWaitDone(t)
  \/ \E t \in DOMAIN tasks : ValidateEvalDone(t)
  \/ \E t \in DOMAIN tasks : ValidateStateDone(t)
  \/ \E id \in Ids, v \in ValidationInputs : CallDeleteSession(id, v)
  \/ \E t \in DOMAIN tasks : DeleteWsDone(t)
  \/ \E t \in DOMAIN tasks : DeleteTeardownDone(t)
  \/ \E t \in DOMAIN tasks : DeleteTick(t)
  \/ \E t \in DOMAIN tasks : FolderRealpathTarget(t)
  \/ \E t \in DOMAIN tasks : FolderRealpathRoot(t)
  \/ \E t \in DOMAIN tasks : FolderRm(t)
  \/ \E id \in Ids : CallReloadSession(id)
  \/ \E t \in DOMAIN tasks : ReloadPagesDone(t)
  \/ \E t \in DOMAIN tasks : ReloadPageCloseDone(t)
  \/ \E t \in DOMAIN tasks : ReloadBrowserCloseDone(t)
  \/ CallRestoreSessions
  \/ \E t \in DOMAIN tasks : RestoreReaddirDone(t)
  \/ \E t \in DOMAIN tasks : RestoreLoop(t)
  \/ \E flag \in BOOLEAN : CallFlushSessions(flag)
  \/ \E t \in DOMAIN tasks : FlushReaddirDone(t)
  \/ \E t \in DOMAIN tasks : FlushValidated(t)
  \/ \E t \in DOMAIN tasks : FlushDeleted(t)
  \/ \E id \in PathIds : CallDeleteSessionFolder(id)
  \/ \E t \in DOMAIN tasks : PathRealpathTarget(t)
  \/ \E t \in DOMAIN tasks : PathRealpathRoot(t)
  \/ \E t \in DOMAIN tasks : PathRm(t)
  \/ \E h \in Handles : RegisterAuthenticated(h)
  \/ \E h \in Handles : Authenticated(h)
  \/ \E h \in Handles : QrEvent(h)
  \/ \E t \in DOMAIN tasks : QrRendered(t)
  \/ \E t \in DOMAIN tasks : QrGateDone(t)
  \/ \E h \in Handles : QrExpire(h)
  \/ Tick
  \/ \E h \in Handles, e \in MessageEvents, m \in BOOLEAN : MessageEvent(h, e, m)
  \/ \E t \in DOMAIN tasks : MediaGateDone(t)
  \/ \E t \in DOMAIN tasks : MediaDownloadDone(t)

Spec == Init /\ [][Next]_vars

---------------------------------------------------------------------------
(* Restrictions of Next to the operations a group of properties is about. *)
(* Every behaviour of a restriction is a behaviour of Spec.               *)

\* auto-recovery disabled (RECOVER_SESSIONS unset)
InitPlain ==
  Init /\ recoverSessions = FALSE

\* auto-recovery enabled
InitRecover ==
  Init /\ recoverSessions = TRUE

\* creation and start-up restoration
NextSetup ==
  \/ \E id \in Ids : CallSetupSession(id)
  \/ \E t \in DOMAIN tasks : InitializeDone(t)
  \/ CallRestoreSessions
  \/ \E t \in DOMAIN tasks : RestoreReaddirDone(t)
  \/ \E t \in DOMAIN tasks : RestoreLoop(t)

SpecSetup == InitPlain /\ [][NextSetup]_vars

\* creation and crash recovery
NextRecovery ==
  \/ \E id \in Ids : CallSetupSession(id)
  \/ \E t \in DOMAIN tasks : InitializeDone(t)
  \/ \E h \in Handles : AttachRecovery(h)
  \/ \E h \in Handles : PageClose(h)
  \/ \E h \in Handles : PageError(h)
  \/ \E t \in DOMAIN tasks : RestartDestroyDone(t)

SpecRecovery == InitRecover /\ [][NextRecovery]_vars

\* creation and deletion
\* the awaited calls of the client library settle
SpecRecoveryFair ==
  /\ SpecRecovery
  /\ WF_vars(\E t \in DOMAIN tasks : RestartDestroyDone(t))
  /\ WF_vars(\E t \in DOMAIN tasks : InitializeDone(t))

NextDelete ==
  \/ \E id \in Ids : CallSetupSession(id)
  \/ \E t \in DOMAIN tasks : InitializeDone(t)
  \/ \E h \in Handles : PageClose(h)
  \/ \E id \in Ids, v \in ValidationInputs : CallDeleteSession(id, v)
  \/ \E t \in DOMAIN tasks : DeleteWsDone(t)
  \/ \E t \in DOMAIN tasks : DeleteTeardownDone(t)
  \/ \E t \in DOMAIN tasks : DeleteTick(t)
  \/ \E t \in DOMAIN tasks : FolderRealpathTarget(t)
  \/ \E t \in DOMAIN tasks : FolderRealpathRoot(t)
  \/ \E t \in DOMAIN tasks : FolderRm(t)

SpecDelete == InitPlain /\ [][NextDelete]_vars

\* creation and bulk flush
NextFlush ==
  \/ \E id \in Ids : CallSetupSession(id)
  \/ \E t \in DOMAIN tasks : InitializeDone(t)
  \/ \E h \in Handles : PageClose(h)
  \/ \E flag \in BOOLEAN : CallFlushSessions(flag)
  \/ \E t \in DOMAIN tasks : FlushReaddirDone(t)
  \/ \E t \in DOMAIN tasks : FlushValidated(t)
  \/ \E t \in DOMAIN tasks : FlushDeleted(t)
  \/ \E t \in DOMAIN tasks : ValidateWaitDone(t)
  \/ \E t \in DOMAIN tasks : ValidateEvalDone(t)
  \/ \E t \in DOMAIN tasks : ValidateStateDone(t)
  \/ \E t \in DOMAIN tasks : DeleteWsDone(t)
  \/ \E t \in DOMAIN tasks : DeleteTeardownDone(t)
  \/ \E t \in DOMAIN tasks : DeleteTick(t)
  \/ \E t \in DOMAIN tasks : FolderRealpathTarget(t)
  \/ \E t \in DOMAIN tasks : FolderRealpathRoot(t)
  \/ \E t \in DOMAIN tasks : FolderRm(t)

SpecFlush == InitPlain /\ [][NextFlush]_vars

\* creation, validation, crashes and crash recovery
InitFolder ==
  /\ sessions = [id \in Ids |-> NULL]
  /\ dirs = {}
  /\ clients = [h \in Handles |-> UnusedClient]
  /\ nextClient = 1
  /\ tasks = <<>>
  /\ recoverSessions = FALSE
  /\ disk \in Disks

NextFolder ==
  \/ \E id \in PathIds : CallDeleteSessionFolder(id)
  \/ \E t \in DOMAIN tasks : PathRealpathTarget(t)
  \/ \E t \in DOMAIN tasks : PathRealpathRoot(t)
  \/ \E t \in DOMAIN tasks : PathRm(t)

SpecFolder == InitFolder /\ [][NextFolder]_vars

NextQr ==
  \/ \E id \in Ids : CallSetupSession(id)
  \/ \E t \in DOMAIN tasks : InitializeDone(t)
  \/ \E h \in Handles : RegisterAuthenticated(h)
  \/ \E h \in Handles : Authenticated(h)
  \/ \E h \in Handles : QrEvent(h)
  \/ \E t \in DOMAIN tasks : QrRendered(t)
  \/ \E t \in DOMAIN tasks : QrGateDone(t)
  \/ \E h \in Handles : QrExpire(h)
  \/ Tick

SpecQr == InitPlain /\ [][NextQr]_vars

NextReload ==
  \/ \E h \in Handles : AttachRecovery(h)
  \/ ListenersAttached /\ \E id \in Ids : CallSetupSession(id)
  \/ ListenersAttached /\ \E t \in DOMAIN tasks : InitializeDone(t)
  \/ ListenersAttached /\ \E h \in Handles : PageClose(h)
  \/ ListenersAttached /\ \E h \in Handles : PageError(h)
  \/ ListenersAttached /\ \E t \in DOMAIN tasks : RestartDestroyDone(t)
  \/ ListenersAttached /\ \E id \in Ids : CallReloadSession(id)
  \/ ListenersAttached /\ \E t \in DOMAIN tasks : ReloadPagesDone(t)
  \/ ListenersAttached /\ \E t \in DOMAIN tasks : ReloadPageCloseDone(t)
  \/ ListenersAttached /\ \E t \in DOMAIN tasks : ReloadBrowserCloseDone(t)
  \/ ListenersAttached /\ \E id \in Ids, v \in ValidationInputs : CallDeleteSession(id, v)
  \/ ListenersAttached /\ \E t \in DOMAIN tasks : DeleteWsDone(t)
  \/ ListenersAttached /\ \E t \in DOMAIN tasks : DeleteTeardownDone(t)
  \/ ListenersAttached /\ \E t \in DOMAIN tasks : DeleteTick(t)
  \/ ListenersAttached /\ \E t \in DOMAIN tasks : FolderRealpathTarget(t)
  \/ ListenersAttached /\ \E t \in DOMAIN tasks : FolderRealpathRoot(t)
  \/ ListenersAttached /\ \E t \in DOMAIN tasks : FolderRm(t)

SpecReload == InitRecover /\ [][NextReload]_vars

NextMedia ==
  \/ \E id \in Ids : CallSetupSession(id)
  \/ \E t \in DOMAIN tasks : InitializeDone(t)
  \/ \E h \in Handles, e \in MessageEvents, m \in BOOLEAN : MessageEvent(h, e, m)
  \/ \E t \in DOMAIN tasks : MediaGateDone(t)
  \/ \E t \in DOMAIN tasks : MediaDownloadDone(t)

SpecMedia == InitPlain /\ [][NextMedia]_vars

NextValidate ==
  \/ \E id \in Ids : CallSetupSession(id)
  \/ \E t \in DOMAIN tasks : InitializeDone(t)
  \/ \E h \in Handles : AttachRecovery(h)
  \/ \E h \in Handles : PageClose(h)
  \/ \E h \in Handles : PageError(h)
  \/ \E t \in DOMAIN tasks : RestartDestroyDone(t)
  \/ \E id \in Ids : CallValidateSession(id)
  \/ \E t \in DOMAIN tasks : ValidateWaitDone(t)
  \/ \E t \in DOMAIN tasks : ValidateEvalDone(t)
  \/ \E t \in DOMAIN tasks : ValidateStateDone(t)

SpecValidate == Init /\ [][NextValidate]_vars

---------------------------------------------------------------------------
(* Properties *)

\* the invocation of op that this step starts, if any
Started(op) ==
  IF Len(tasks') = Len(tasks) + 1 /\ tasks'[Len(tasks')].op = op THEN {Len(tasks')} ELSE {}

\* the invocations of op that settle in this step
Settled(op) ==
  {t \in DOMAIN tasks' : tasks'[t].op = op /\ tasks'[t].out # "running"
                         /\ (t \in DOMAIN tasks => tasks[t].out = "running")}

\* setupSession invocations for id that are past the existence check and
\* awaiting client.initialize()
InFlightSetups(id) ==
  {t \in DOMAIN tasks : tasks[t].pc = "s_init" /\ tasks[t].id = id}

\* C1: for every identity at most one setupSession(id) is past the existence
\* check (awaiting client initialization) at any time; an overlapping call
\* short-circuits with 'already exists'.
C1_AtMostOneSetupInFlight ==
  \A id \in Ids : Cardinality(InFlightSetups(id)) <= 1

\* C2: a setupSession(id) called after a setupSession(id) that completed
\* successfully, while the Registry still holds that handle, returns the
\* 'already exists' failure carrying the handle, constructs and initializes
\* no client, and leaves the Registry (and every client) as it was.
C2_SecondSetupAlreadyExists ==
  [][\A t \in Started("setup") :
       (\E u \in DOMAIN tasks :
           /\ tasks[u].id = tasks'[t].id
           /\ tasks[u].sres.success
           /\ sessions[tasks'[t].id] = tasks[u].sres.client)
       => /\ tasks'[t].out = "returned"
          /\ tasks'[t].sres = [success |-> FALSE, message |-> "already_exists",
                               client |-> sessions[tasks'[t].id]]
          /\ sessions' = sessions
          /\ nextClient' = nextClient
          /\ clients' = clients]_vars

\* C2 witness: a second setupSession(id) has returned 'already exists' with
\* the handle the first one registered, and the Registry still maps id to it.
C2_Witness ==
  \E t, u \in DOMAIN tasks :
    /\ t # u
    /\ tasks[u].op = "setup" /\ tasks[u].sres.success
    /\ tasks[t].op = "setup" /\ tasks[t].id = tasks[u].id
    /\ tasks[t].out = "returned"
    /\ tasks[t].sres.message = "already_exists"
    /\ tasks[t].sres.client = tasks[u].sres.client
    /\ sessions[tasks[t].id] = tasks[u].sres.client

\* C3: whenever a deleteSession(id, validation) of a registered identity
\* finishes, by returning or by throwing, the Registry has no entry for id
\* and the directory session-<id> is absent.
C3_DeleteAlwaysRemoves ==
  [][\A t \in Settled("delete") :
       (t \in DOMAIN tasks /\ tasks[t].client # NULL)
       => /\ sessions'[tasks[t].id] = NULL
          /\ tasks[t].id \notin dirs']_vars

\* restartSession invocations for the crash of handle h that have gone on
\* to call setupSession
RecoverySetups(h) ==
  {t \in DOMAIN tasks : tasks[t].op = "restart" /\ tasks[t].client = h
                        /\ tasks[t].pc # "x_destroy"}

\* C4: for one handle the page-close and page-error signals together lead to
\* one setupSession call by the recovery routine, not two.
C4_OneRecoveryPerCrash ==
  \A h \in Handles : Cardinality(RecoverySetups(h)) <= 1

\* C5: no step removes the directory of an identity for which the Registry
\* holds an entry.
C5_DirRemovedOnlyWhenUnregistered ==
  [][\A id \in Ids : (id \in dirs /\ id \notin dirs') => sessions[id] = NULL]_vars

\* C6: flushSessions(true) leaves an identity whose validation succeeded
\* untouched, and when flushSessions(false) returns none of the directories
\* it listed remains.
C6_FlushDeletesAsFlagged ==
  [][/\ \A t \in DOMAIN tasks :
          (tasks[t].pc = "fl_val" /\ tasks[t].flag /\ tasks[t].val.success
             /\ tasks'[t] # tasks[t])
          => /\ sessions' = sessions
             /\ dirs' = dirs
             /\ clients' = clients
     /\ \A t \in Settled("flush") :
          (tasks'[t].out = "returned" /\ ~tasks'[t].flag)
          => tasks'[t].listed \cap dirs' = {}]_vars

\* C7: a flushSessions never ends with listed identities left unvisited: a
\* failing deleteSession does not stop the loop.
C7_FlushVisitsEveryListed ==
  \A t \in DOMAIN tasks :
    (tasks[t].op = "flush" /\ tasks[t].out # "running") => tasks[t].files = <<>>

\* C8: validateSession returns success=true exactly when the page evaluation
\* actually completed and the reported state is CONNECTED; a live page with
\* any other reported state gives success=false, 'session_not_connected'
\* and that state.
C8_SuccessIffEvaluatedAndConnected ==
  \A t \in DOMAIN tasks :
    (tasks[t].op = "validate" /\ tasks[t].out = "returned")
    => /\ tasks[t].val.success <=> (tasks[t].probe = "ok" /\ tasks[t].val.state = "CONNECTED")
       /\ tasks[t].val.state \notin {"null", "CONNECTED"}
            => (~tasks[t].val.success /\ tasks[t].val.message = "session_not_connected")

\* C9: validateSession(id) for an identity without Registry entry returns
\* {success:false, state:null, message:'session_not_found'} in the calling
\* segment (no await, hence no adapter call, and no exception) and changes
\* neither the Registry, nor the directories, nor any client.
C9_NotFoundIsPure ==
  [][\A t \in Started("validate") :
       sessions[tasks'[t].id] = NULL
       => /\ tasks'[t].out = "returned"
          /\ tasks'[t].pc = "done"
          /\ tasks'[t].val = [success |-> FALSE, state |-> "null", message |-> "session_not_found"]
          /\ UNCHANGED <<sessions, dirs, clients, nextClient>>]_vars

\* C9 witness: a validateSession of an unregistered identity has returned
\* session_not_found.
C9_Witness ==
  \E t \in DOMAIN tasks :
    /\ tasks[t].op = "validate" /\ tasks[t].out = "returned"
    /\ tasks[t].val.message = "session_not_found"
    /\ sessions[tasks[t].id] = NULL

ValidationMessages ==
  {"session_not_found", "browser tab closed", "session closed",
   "session_not_connected", "session_connected", "error"}

\* C10: validateSession never throws: it always returns a {success, state,
\* message} record, and when its last adapter call failed the record has
\* success=false.
C10_ValidateNeverThrows ==
  \A t \in DOMAIN tasks :
    (tasks[t].op = "validate" /\ tasks[t].out # "running")
    => /\ tasks[t].out = "returned"
       /\ tasks[t].val.success \in BOOLEAN
       /\ tasks[t].val.state \in {"null", "CONNECTED", "OPENING"}
       /\ tasks[t].val.message \in ValidationMessages
       /\ tasks[t].lastCall = "fail" => ~tasks[t].val.success

\* C10 witness: validations have ended on a throwing getState and on an
\* evaluation that threw three times.
C10_Witness ==
  /\ \E t \in DOMAIN tasks :
       /\ tasks[t].op = "validate" /\ tasks[t].out = "returned"
       /\ tasks[t].lastCall = "fail" /\ tasks[t].val.message = "error"
  /\ \E t \in DOMAIN tasks :
       /\ tasks[t].op = "validate" /\ tasks[t].out = "returned"
       /\ tasks[t].lastCall = "fail" /\ tasks[t].val.message = "session closed"

---------------------------------------------------------------------------
(* Properties of deleteSessionFolder on paths *)

\* p lies below r and is not r
StrictlyInside(p, r) ==
  /\ Len(p) > Len(r)
  /\ \A i \in 1..Len(r) : p[i] = r[i]

FolderTasks ==
  {t \in DOMAIN tasks : tasks[t].op = "folder"}

\* C11: deleteSessionFolder removes a directory only if its resolved real
\* path is a strict descendant of the resolved session root; an identity
\* whose target resolves outside the root (or to the root itself) makes the
\* call fail with an error, and that call deletes nothing.
C11_RemovesOnlyInsideRoot ==
  [][/\ \A n \in disk.nodes \ disk'.nodes :
          /\ StrictlyInside(n, RealPath(disk, SessionFolderPath))
          /\ \E t \in FolderTasks :
               /\ tasks[t].pc = "p_rm"
               /\ tasks[t].path = RealPath(disk, tasks[t].path)
               /\ IsPrefix(tasks[t].path, n)
     /\ \A t \in FolderTasks :
          /\ (tasks[t].pc = "p_real1" /\ tasks'[t].pc = "p_real2")
               => tasks'[t].path = RealPath(disk, TargetDirPath(tasks[t].id))
          /\ (/\ tasks[t].pc = "p_real2"
              /\ tasks'[t].pc # "p_real2"
              /\ ~StrictlyInside(tasks[t].path, RealPath(disk, SessionFolderPath)))
               => /\ tasks'[t].out = "thrown"
                  /\ disk' = disk]_vars

\* a traversal identity was rejected and a plain one had its directory removed
C11_Witness ==
  /\ \E t \in FolderTasks :
       /\ tasks[t].id \in {"x/..", "../../../etc"}
       /\ tasks[t].out = "thrown"
  /\ \E t \in FolderTasks :
       /\ tasks[t].id = "a"
       /\ tasks[t].out = "returned"
  /\ <<"sessions", "session-a">> \notin disk.nodes
  /\ <<"sessions">> \in disk.nodes
  /\ <<"etc">> \in disk.nodes

---------------------------------------------------------------------------
(* Properties of the pairing-code fields *)

\* C12: a handle's cached pairing payload and image are non-null only after
\* a 'qr' event and before authentication; once 'authenticated' has fired
\* for the handle, both are null.
C12_QrNullOnceAuthenticated ==
  \A h \in Handles :
    LET p == clients[h].pair
    IN (p.qr # NULL \/ p.qrImage # NoImage) => (p.issued > 0 /\ ~p.authed)

\* the 'qr' listeners of h still waiting for their image
Rendering(h) ==
  {t \in DOMAIN tasks : tasks[t].op = "qr" /\ tasks[t].client = h /\ tasks[t].pc = "q_render"}

\* C13: for any sequence of 'qr' events on a handle, at most one expiry
\* timer is armed; once every received payload has been handled the cached
\* payload and image are those of the latest payload issued; the fields are
\* cleared when the timer has run out; and they are never cleared earlier
\* than one full window after the latest issuance.
C13_LatestWinsOneTimer ==
  /\ [](\A h \in Handles :
          LET p == clients[h].pair
          IN /\ Cardinality(p.timers) <= 1
             /\ (Rendering(h) = {} /\ p.qr # NULL)
                  => (p.qr = p.issued /\ p.qrImage = <<"png", p.issued>>)
             /\ (Rendering(h) = {} /\ p.timers = {})
                  => (p.qr = NULL /\ p.qrImage = NoImage))
  /\ [][\A h \in Handles :
          LET p == clients[h].pair
          IN (p.qrImage # NoImage /\ clients'[h].pair.qrImage = NoImage) => p.age >= QrTicks]_vars

---------------------------------------------------------------------------
(* Properties of setupSession and restoreSessions *)

\* C14: the Registry entry of an identity is written only by a setupSession
\* call whose client.initialize() has completed successfully, so no entry
\* ever names a client that is not initialized; when initialize() fails the
\* call returns a failure and changes no entry.
C14_EntryOnlyAfterInitialize ==
  /\ [](\A id \in Ids :
          sessions[id] # NULL => clients[sessions[id]].st \notin {"unused", "init", "failed"})
  /\ [][/\ \A id \in Ids :
             (sessions'[id] # NULL /\ sessions'[id] # sessions[id])
               => \E t \in DOMAIN tasks :
                    /\ tasks[t].pc = "s_init"
                    /\ tasks[t].id = id
                    /\ tasks[t].nclient = sessions'[id]
                    /\ clients'[sessions'[id]].st = "live"
                    /\ tasks'[t].sres = [success |-> TRUE, message |-> "initiated",
                                         client |-> sessions'[id]]
        /\ \A t \in DOMAIN tasks :
             (/\ tasks[t].pc = "s_init"
              /\ tasks'[t].pc # "s_init"
              /\ clients'[tasks[t].nclient].st = "failed")
               => /\ ~tasks'[t].sres.success
                  /\ tasks'[t].sres.client = NULL
                  /\ sessions' = sessions]_vars

\* a setupSession call has returned a failure of initialize() and its
\* identity has no entry, while another identity was registered
C14_Witness ==
  /\ \E t \in DOMAIN tasks :
       /\ tasks[t].op = "setup"
       /\ tasks[t].pc = "done"
       /\ tasks[t].sres.message = "error"
       /\ sessions[tasks[t].id] = NULL
  /\ \E id \in Ids : sessions[id] # NULL

\* C15: restoreSessions calls setupSession for every session-<id> directory
\* it listed, one after the other, whatever the earlier calls returned; when
\* it runs alone and every initialize() succeeds, every listed identity has
\* a Registry entry at the end.
C15_RestoreAttemptsEvery ==
  /\ [](\A t \in DOMAIN tasks :
          (tasks[t].op = "restore" /\ tasks[t].pc = "done")
            => /\ tasks[t].files = <<>>
               /\ (Len(tasks) = 1 /\ \A h \in Handles : clients[h].st # "failed")
                    => \A id \in tasks[t].listed : sessions[id] # NULL)
  /\ [][\A t \in DOMAIN tasks :
          (tasks[t].op = "restore" /\ tasks[t].pc # "rs_readdir" /\ tasks'[t].files # tasks[t].files)
            => /\ tasks[t].pc = "rs_loop"
               /\ tasks[t].files # <<>>
               /\ tasks'[t].files = Tail(tasks[t].files)
               /\ \/ /\ tasks'[t].pc = "s_init"
                     /\ tasks'[t].id = Head(tasks[t].files)
                     /\ clients'[tasks'[t].nclient].st = "init"
                  \/ /\ tasks'[t].pc = "rs_loop"
                     /\ tasks'[t].sres = AlreadyExists(sessions, Head(tasks[t].files))]_vars

\* restoreSessions ran alone over two directories: the first setupSession
\* failed and the second one registered its identity
C15_Witness ==
  /\ Len(tasks) = 1
  /\ tasks[1].op = "restore"
  /\ tasks[1].pc = "done"
  /\ tasks[1].listed = Ids
  /\ clients[1].st = "failed"
  /\ clients[2].st = "live"
  /\ sessions[clients[2].id] = 2

---------------------------------------------------------------------------
(* Properties of the evaluation loop of validateSession *)

\* the validations whose evaluation attempt settles in this step
EvalSettled ==
  {t \in DOMAIN tasks : tasks[t].pc = "v_eval" /\ tasks'[t] # tasks[t]}

\* C16: an evaluation attempt that times out is handled as a failed attempt:
\* it is counted by the retry loop (or ends it with 'session closed' or
\* 'browser tab closed') and never lets validateSession go on to getState.
C16_TimeoutCountsAsFailure ==
  [][\A t \in EvalSettled :
       tasks'[t].probe = "timeout"
       => /\ tasks'[t].pc # "v_state"
          /\ \/ tasks'[t].pc = "v_eval" /\ tasks'[t].retry = tasks[t].retry + 1
             \/ tasks'[t].val.message \in {"session closed", "browser tab closed"}]_vars

\* C17: a failing evaluation is retried at most MaxEvalRetry more times, the
\* third failure returning 'session closed'; every pass through the loop
\* either leaves it or raises the retry count, so the loop ends; and
\* getState is called only after an evaluation attempt has succeeded.
C17_ThreeAttemptsThenState ==
  /\ [](\A t \in DOMAIN tasks :
          /\ tasks[t].retry <= MaxEvalRetry
          /\ tasks[t].pc = "v_state" => tasks[t].probe = "ok")
  /\ [][\A t \in EvalSettled :
          /\ tasks'[t].pc = "v_eval" => tasks'[t].retry = tasks[t].retry + 1
          /\ tasks'[t].val.message = "session closed"
               => (tasks[t].retry = MaxEvalRetry /\ tasks'[t].probe = "throw")
          /\ (tasks[t].retry = MaxEvalRetry /\ tasks'[t].probe = "throw")
               => tasks'[t].val.message = "session closed"]_vars

---------------------------------------------------------------------------
(* Properties of reloadSession, deleteSession and crash recovery *)

\* C18: when reloadSession moves on from closing the browser, be it that
\* close() resolved, rejected or was still hanging when the grace period
\* ran out, the old browser is no longer running (closed or killed) before
\* the Registry entry is removed and setupSession is called.
C18_BrowserGoneBeforeSetup ==
  [][\A t \in DOMAIN tasks :
       (tasks[t].pc = "r_bclose" /\ tasks'[t].pc # "r_bclose")
       => ~BrowserConnected(clients'[tasks[t].client])]_vars

\* the reloadSession and deleteSession invocations at work on client h
UserOps(h) ==
  {t \in DOMAIN tasks : /\ tasks[t].op \in {"reload", "delete"}
                        /\ tasks[t].out = "running"
                        /\ tasks[t].client = h}

Signalled(h) ==
  IF clients'[h].st = clients[h].st THEN {}
  ELSE IF clients'[h].st = "pageclosed" THEN {"close"}
  ELSE IF clients'[h].st = "crashed" THEN {"error"}
  ELSE {}

\* C20: with auto-recovery enabled, a page-close or page-error signal with
\* its listener attached removes the identity from the Registry and calls
\* destroy on the old client; when destroy settles, resolved or rejected,
\* setupSession(id) is called and restartSession does not throw; when the
\* new initialize() succeeds the Registry holds a client other than the
\* crashed one; and every recovery that started comes to its end.
C20_RecoveryOrder ==
  /\ [][/\ \A h \in Handles :
             (Signalled(h) \cap clients[h].lis # {})
               => \E t \in Started("restart") :
                    /\ tasks'[t].client = h
                    /\ tasks'[t].id = clients[h].id
                    /\ tasks'[t].pc = "x_destroy"
                    /\ sessions'[clients[h].id] = NULL
        /\ \A t \in DOMAIN tasks :
             /\ (tasks[t].op = "restart" /\ tasks[t].pc = "x_destroy" /\ tasks'[t] # tasks[t])
                  => /\ tasks'[t].out # "thrown"
                     /\ \/ /\ tasks'[t].pc = "s_init"
                           /\ tasks'[t].id = tasks[t].id
                           /\ tasks'[t].nclient # tasks[t].client
                        \/ /\ tasks'[t].pc = "done"
                           /\ tasks'[t].sres = AlreadyExists(sessions, tasks[t].id)
             /\ (/\ tasks[t].op = "restart"
                 /\ tasks[t].pc = "s_init"
                 /\ tasks'[t].pc = "done"
                 /\ tasks'[t].sres.success)
                  => /\ sessions'[tasks[t].id] = tasks[t].nclient
                     /\ sessions'[tasks[t].id] # tasks[t].client
                     /\ clients'[tasks[t].nclient].st = "live"]_vars
  /\ \A t \in 1..MaxTasks :
       [](t \in DOMAIN tasks /\ tasks[t].op = "restart"
            => <>(t \in DOMAIN tasks /\ tasks[t].op = "restart" /\ tasks[t].pc = "done"))

\* a recovery whose destroy was rejected has re-created the session under a
\* new client
C20_Witness ==
  \E t \in DOMAIN tasks :
    /\ tasks[t].op = "restart"
    /\ tasks[t].pc = "done"
    /\ tasks[t].sres.success
    /\ clients[tasks[t].client].st \in {"crashed", "pageclosed"}
    /\ sessions[tasks[t].id] = tasks[t].sres.client
    /\ tasks[t].sres.client # tasks[t].client

\* C21: when the setupSession call inside reloadSession fails on
\* client.initialize(), the caller of reloadSession receives an error: the
\* invocation never settles with an ordinary result while the identity is
\* left without Registry entry.
C21_ReloadReportsSetupFailure ==
  \A t \in DOMAIN tasks :
    (tasks[t].op = "reload" /\ tasks[t].pc = "done" /\ tasks[t].sres.message = "error")
    => ReloadResult(tasks[t]) = "error"

---------------------------------------------------------------------------
(* Properties of the message events *)

\* the listener invocations for message events
MessageTasks ==
  {t \in DOMAIN tasks : tasks[t].op \in MessageEvents}

\* C22: every message, message_ack or message_create event is forwarded to
\* webhook and websocket at once, whatever becomes of the download; when its
\* message carries media below the maximum size, the listener does not end
\* before the download has settled: a completed download is followed by the
\* 'media' fan-out to both channels, a failed one by none.
C22_MediaFanOut ==
  \A t \in MessageTasks :
    LET tk == tasks[t]
    IN /\ Trigger(tk.op) \subseteq tk.sent
       /\ (tk.flag /\ tk.pc = "done")
            => /\ tk.probe \in {"ok", "throw"}
               /\ tk.probe = "ok" => Trigger("media") \subseteq tk.sent
               /\ tk.probe = "throw" => tk.sent \cap Trigger("media") = {}
       /\ ~tk.flag => tk.sent \cap Trigger("media") = {}

---------------------------------------------------------------------------
(* Registry and clients *)

\* C23: once every operation has settled, a client that was initialized and
\* whose browser has not been torn down is the client the Registry holds
\* for its identity; hence at most one such client per identity, and none
\* left unreferenced.
C23_LiveClientsAreRegistered ==
  (\A t \in DOMAIN tasks : tasks[t].pc = "done")
    => \A h \in Handles :
         BrowserConnected(clients[h]) => sessions[clients[h].id] = h

====
